---------------------------- MODULE Spec2Model ----------------------------
(***************************************************************************)
(* The merchant-registration form of bounty-form: the MerchantFormContent  *)
(* component of src/src/app/page.tsx and its variant src/unnamed/part_000  *)
(* (no e-mail input, form gated behind the typewriter intro).              *)
(*                                                                         *)
(* Text that the code inspects character by character (trim, the regular   *)
(* expressions) is a sequence of one-character strings.  Text that is only *)
(* stored, shown and compared (messages, the address, the QR link) is a    *)
(* TLA+ string.  A nullable value is <<>> (null) or <<v>>.                 *)
(***************************************************************************)
EXTENDS Integers, Sequences, FiniteSets, TLC

VARIABLES
    variant,          \* "page" (src/src/app/page.tsx), "part000" (src/unnamed/part_000)
                      \* or "typewriter" (FormLoader of src/src/app/typewriter.tsx)
    campaignId,       \* searchParams.get("campaign"): Null or Some(text)
    companyId,        \* searchParams.get("company"): Null or Some(text)
    apiUrl,           \* process.env.NEXT_PUBLIC_BOUNTY_URL is set
    geolocation,      \* navigator.geolocation exists
    formData, error, success, loading, locationLoading, merchantData, step,
    locationError, isDialogOpen, qrDataUrl, qrLoading,
    showTypewriter, displayText, currentIndex,
    locPc,            \* where detectLocation stands
    position,         \* the GeolocationPosition detectLocation holds: Null or Some(coords)
    submitPc,         \* where the asynchronous part of handleSubmit stands
    body,             \* the JSON body of the creation request in flight
    response,         \* the creation response handleSubmit holds
    requests,         \* number of creation POSTs issued so far
    lastOp,           \* the handler or continuation that ran last
    ret               \* what the last validateStep1 / validateStep2 call returned

vars == << variant, campaignId, companyId, apiUrl, geolocation,
           formData, error, success, loading, locationLoading, merchantData, step,
           locationError, isDialogOpen, qrDataUrl, qrLoading,
           showTypewriter, displayText, currentIndex,
           locPc, position, submitPc, body, response, requests, lastOp, ret >>

config == << variant, campaignId, companyId, apiUrl, geolocation >>
typewriter == << showTypewriter, displayText, currentIndex >>
location == << locPc, position, locationLoading, locationError >>
submission == << submitPc, body, response, requests >>
dialog == << isDialogOpen, qrDataUrl, qrLoading, merchantData >>

----------------------------------------------------------------------------
(* Bounds *)

\* Cap on the number of creation requests one behaviour issues.
MaxRequests == 2

----------------------------------------------------------------------------
(* Values *)

Null == << >>
Some(x) == << x >>

\* JavaScript truthiness of a nullable text / nullable number / text.
TruthyText(t) == t # << >>
TruthyParam(p) == p # Null /\ p[1] # << >>
TruthyNumber(n) == n # Null /\ n[1] # 0

\* `p || ""` for a query parameter.
OrEmpty(p) == IF TruthyParam(p) THEN p[1] ELSE << >>

Digits == {"0", "1", "2", "3", "4", "5", "6", "7", "8", "9"}
\* the letters that occur in the texts below
Letters == {"a", "b", "c", "e", "f", "i", "p", "u", "x", "A", "C", "X"}
\* \w of a JavaScript regular expression: [A-Za-z0-9_]
WordChars == Letters \cup Digits \cup {"_"}
\* the class [\w.-]
UpiChars == WordChars \cup {".", "-"}
WhiteSpace == {" ", "\t", "\n"}

CafeX == << "C", "a", "f", "e", " ", "X" >>
Mobile10 == << "9", "8", "7", "6", "5", "4", "3", "2", "1", "0" >>
Mobile5 == << "1", "2", "3", "4", "5" >>
Mobile11 == Mobile10 \o << "1" >>
MobileX == << "9", "8", "7", "6", "5", "x", "3", "2", "1", "0" >>
CafeUpi == << "c", "a", "f", "e", "@", "u", "p", "i" >>
DottedUpi == << "c", ".", "a", "-", "f", "_", "1", "@", "u", ".", "p" >>
Abc123 == << "a", "b", "c", "1", "2", "3" >>
Acme == << "A", "c", "e" >>

\* What the user may type into each input (the raw event value).
NameInputs == { << >>, << " " >>, CafeX, << " " >> \o CafeX \o << " " >> }
MobileInputs == { << >>, Mobile10, Mobile10 \o << " " >>, Mobile5, Mobile11, MobileX }
EmailInputs == { << >>, << "a", "@", "b" >>, << "a", "b" >> }
UpiInputs == { << >>, CafeUpi, << " " >> \o CafeUpi, DottedUpi,
               << "c", "a", "f", "e" >>, << "c", "@", "u", "@", "p" >>,
               << "@", "u", "p", "i" >>, << "c", "a", "f", "e", "@" >>,
               << "c", " ", "f", "@", "u" >> }

CampaignParams == { Null, Some(Abc123) }
CompanyParams == { Null, Some(Acme) }

\* Coordinates the browser may report; 0 is a legitimate coordinate.
Latitudes == { 0, 12 }
Longitudes == { 0, 77 }

\* display_name values of the reverse-geocoding answer ("" when it has none).
DisplayNames == { "", "12 MG Road" }


----------------------------------------------------------------------------
(* Messages *)

MsgCampaignRequired == "Campaign ID is required"
MsgNameRequired == "Merchant name is required"
MsgMobileRequired == "Mobile number is required"
MsgMobileFormat == "Please enter a valid 10-digit mobile number"
MsgEmailFormat == "Please enter a valid email address"
MsgLocationRequired == "Location access is required to proceed. Please enable location sharing and refresh the page"
MsgUpiRequired == "UPI ID is required"
MsgUpiFormat == "Please enter a valid UPI ID"
MsgCompanyRequired == "Company name is required"
MsgCampaignMissing == "Campaign ID is missing"
MsgQrDisplayFailed == "Failed to generate QR code display"
MsgQrLinkMissing == "QR link is missing"
MsgDownloaded == "QR code has been downloaded!"
MsgApiUrl == "API URL is not configured"
MsgCreateFailed == "Failed to create merchant"
MsgCreated == "Merchant created successfully!"
MsgGeoUnsupported == "Geolocation is not supported by your browser"
MsgGeoDenied == "Please enable location access to proceed"
MsgGeoError == "Error getting location. Please allow location access and refresh the page"
MsgGeocodeFailed == "Failed to get address from coordinates"
MsgAddressNotFound == "Address not found"
\* message of the TypeError a rejected fetch throws
MsgFetchFailed == "Failed to fetch"
\* message of the SyntaxError response.json() throws on a body that is not JSON
MsgBadJson == "Unexpected token '<' is not valid JSON"
\* a message the creation endpoint may put in its answer
MsgServer == "Merchant already exists"
NoError == ""

----------------------------------------------------------------------------
(* Pure functions *)

\* Number of digits validateMobile asks for.
MobileDigits == 10

RECURSIVE TrimStart(_)
TrimStart(s) ==
    IF s # << >> /\ Head(s) \in WhiteSpace THEN TrimStart(Tail(s)) ELSE s

RECURSIVE TrimEnd(_)
TrimEnd(s) ==
    IF s # << >> /\ s[Len(s)] \in WhiteSpace
    THEN TrimEnd(SubSeq(s, 1, Len(s) - 1))
    ELSE s

\* Mutant of trim: only the leading white space is removed (trimStart).
trim_StartOnly(s) == TrimStart(s)

\* String.prototype.trim
trim(s) == TrimEnd(TrimStart(s))

\* String.prototype.includes for one character
includes(s, ch) == \E i \in 1..Len(s) : s[i] = ch

\* Mutant of validateMobile: the pattern loses its end anchor, /^\d{10}/.
validateMobile_Unanchored(mobile) ==
    /\ Len(mobile) >= MobileDigits
    /\ \A i \in 1..MobileDigits : mobile[i] \in Digits

\* /^\d{10}$/.test(mobile)
validateMobile(mobile) ==
    /\ Len(mobile) = MobileDigits
    /\ \A i \in 1..Len(mobile) : mobile[i] \in Digits

\* Mutant of validateUPI: only the presence of "@" is tested.
validateUPI_ContainsAt(upi) == includes(upi, "@")

\* /^[\w.-]+@[\w.-]+$/.test(upi)
validateUPI(upi) ==
    \E i \in 2..(Len(upi) - 1) :
        /\ upi[i] = "@"
        /\ \A j \in 1..Len(upi) : j # i => upi[j] \in UpiChars

\* Mutant of validateStep1Error: the location check is made first.
validateStep1Error_LocationFirst(fd, v) ==
    IF ~TruthyNumber(fd.latitude) \/ ~TruthyNumber(fd.longitude)
         THEN MsgLocationRequired
    ELSE IF trim(fd.merchantName) = << >> THEN MsgNameRequired
    ELSE IF trim(fd.merchantMobile) = << >> THEN MsgMobileRequired
    ELSE IF ~validateMobile(fd.merchantMobile) THEN MsgMobileFormat
    ELSE IF v = "page" /\ TruthyText(fd.merchantEmail) /\ ~includes(fd.merchantEmail, "@")
         THEN MsgEmailFormat
    ELSE NoError

\* The message validateStep1 passes to setError, NoError when it returns true.
\* v is the variant: only page.tsx collects and checks the e-mail address.
validateStep1Error(fd, v) ==
    IF trim(fd.merchantName) = << >> THEN MsgNameRequired
    ELSE IF trim(fd.merchantMobile) = << >> THEN MsgMobileRequired
    ELSE IF ~validateMobile(fd.merchantMobile) THEN MsgMobileFormat
    ELSE IF v = "page" /\ TruthyText(fd.merchantEmail) /\ ~includes(fd.merchantEmail, "@")
         THEN MsgEmailFormat
    ELSE IF ~TruthyNumber(fd.latitude) \/ ~TruthyNumber(fd.longitude)
         THEN MsgLocationRequired
    ELSE NoError

validateStep1(fd, v) == validateStep1Error(fd, v) = NoError

\* Mutant of validateStep2Error: the campaign check is made before the company check.
validateStep2Error_CampaignBeforeCompany(fd) ==
    IF trim(fd.upiId) = << >> THEN MsgUpiRequired
    ELSE IF ~validateUPI(fd.upiId) THEN MsgUpiFormat
    ELSE IF ~TruthyText(fd.campaignId) THEN MsgCampaignMissing
    ELSE IF trim(fd.company) = << >> THEN MsgCompanyRequired
    ELSE NoError

\* The message validateStep2 passes to setError, NoError when it returns true.
validateStep2Error(fd) ==
    IF trim(fd.upiId) = << >> THEN MsgUpiRequired
    ELSE IF ~validateUPI(fd.upiId) THEN MsgUpiFormat
    ELSE IF trim(fd.company) = << >> THEN MsgCompanyRequired
    ELSE IF ~TruthyText(fd.campaignId) THEN MsgCampaignMissing
    ELSE NoError

validateStep2(fd) == validateStep2Error(fd) = NoError

\* Mutant of initialFormState: a missing company parameter gets a default name.
initialFormState_DefaultCompany(campaign, company) ==
    [ merchantName |-> << >>,
      upiId |-> << >>,
      merchantMobile |-> << >>,
      merchantEmail |-> << >>,
      company |-> IF TruthyParam(company) THEN company[1] ELSE Acme,
      address |-> "",
      campaignId |-> OrEmpty(campaign),
      latitude |-> Null,
      longitude |-> Null ]

initialFormState(campaign, company) ==
    [ merchantName |-> << >>,
      upiId |-> << >>,
      merchantMobile |-> << >>,
      merchantEmail |-> << >>,
      company |-> OrEmpty(company),
      address |-> "",
      campaignId |-> OrEmpty(campaign),
      latitude |-> Null,
      longitude |-> Null ]

\* Payment links the creation endpoint may return in merchant.qrLink.
QrLinks == { "upi://pay?pa=cafe@upi", "upi://pay?pa=shop@upi" }

\* qrcode.toDataURL(link, ...): the PNG data URL that encodes the link.
toDataURL(link) ==
    CASE link = "upi://pay?pa=cafe@upi" -> "data:image/png;base64,QR[upi://pay?pa=cafe@upi]"
      [] link = "upi://pay?pa=shop@upi" -> "data:image/png;base64,QR[upi://pay?pa=shop@upi]"

\* The creation endpoint's answers: message, and merchant (Null when absent).
Merchants ==
    { [ merchantName |-> "Cafe X", qrLink |-> l ] : l \in QrLinks \cup { "" } }
ApiResponses ==
    [ message : { "", MsgServer }, merchant : { Null } \cup { Some(m) : m \in Merchants } ]

\* The text the typewriter intro types (fullText in part_000).
fullText == << "H", "u", "n", "t", " ", "B", "o", "u", "n", "t", "y" >>

\* Mutant of RenderedInputs: every input is rendered at both steps.
RenderedInputs_AllSteps(st, v) ==
    IF v = "page"
    THEN { "merchantName", "merchantMobile", "merchantEmail", "upiId" }
    ELSE { "merchantName", "merchantMobile", "upiId" }

\* The inputs the form renders at a step: the only fields handleChange can name.
RenderedInputs(st, v) ==
    IF st = 1
    THEN IF v = "page"
         THEN { "merchantName", "merchantMobile", "merchantEmail" }
         ELSE { "merchantName", "merchantMobile" }
    ELSE { "upiId" }

\* What the user may type into the input of that name.
InputValues(name) ==
    CASE name = "merchantName" -> NameInputs
      [] name = "merchantMobile" -> MobileInputs
      [] name = "merchantEmail" -> EmailInputs
      [] name = "upiId" -> UpiInputs

\* Mutant of SubmitPath: step 2 is submitted without validateStep2.
SubmitPath_NoStep2Validation(st, fd, v, url) ==
    IF st = 1
    THEN IF validateStep1(fd, v) THEN "next" ELSE "invalid"
    ELSE IF ~url THEN "config"
    ELSE "post"

\* Mutant of SubmitPath: the step-1 branch lacks its return and runs on into the
\* step-2 part of the handler.
SubmitPath_MissingReturn(st, fd, v, url) ==
    IF st = 1 /\ ~validateStep1(fd, v) THEN "invalid"
    ELSE IF ~validateStep2(fd) THEN "invalid"
    ELSE IF ~url THEN "config"
    ELSE "post"

\* Mutant of SubmitPath: the test of the API URL is left out.
SubmitPath_NoConfigCheck(st, fd, v, url) ==
    IF st = 1
    THEN IF validateStep1(fd, v) THEN "next" ELSE "invalid"
    ELSE IF ~validateStep2(fd) THEN "invalid"
    ELSE "post"

\* Which way handleSubmit goes after clearing the messages:
\*   "next"     step 1, validation passed: setStep(2) and return
\*   "invalid"  validation of the current step failed: return
\*   "config"   step 2 valid, no API URL: the throw inside try
\*   "post"     step 2 valid: the creation request is issued
SubmitPath(st, fd, v, url) ==
    IF st = 1
    THEN IF validateStep1(fd, v) THEN "next" ELSE "invalid"
    ELSE IF ~validateStep2(fd) THEN "invalid"
    ELSE IF ~url THEN "config"
    ELSE "post"

\* `data.message || "Failed to create merchant"`: the message thrown on a non-OK answer.
CreateError(data) == IF data.message # "" THEN data.message ELSE MsgCreateFailed

\* `data.merchant?.qrLink` is truthy.
HasQrLink(data) == data.merchant # Null /\ data.merchant[1].qrLink # ""

\* Mutant of SubmitDisabled: the button ignores the campaign parameter.
SubmitDisabled_IgnoresCampaign == loading \/ locationLoading

\* Mutant of SubmitDisabled: the button ignores the loading flag.
SubmitDisabled_IgnoresLoading == ~TruthyParam(campaignId) \/ locationLoading

\* disabled={loading || !campaignId || locationLoading} of the submit button.
SubmitDisabled == loading \/ ~TruthyParam(campaignId) \/ locationLoading

\* The form is on screen: the component is mounted and (part_000) the intro is over.
FormShown == locPc # "mount" /\ ~showTypewriter

----------------------------------------------------------------------------
(* Initial state: the first render, before the mount effect has run *)

Init ==
    /\ variant \in { "page", "part000" }
    /\ campaignId \in CampaignParams
    /\ companyId \in CompanyParams
    /\ apiUrl \in BOOLEAN
    /\ geolocation \in BOOLEAN
    /\ formData = initialFormState(campaignId, companyId)
    /\ error = ""
    /\ success = ""
    /\ loading = FALSE
    /\ locationLoading = TRUE
    /\ merchantData = Null
    /\ step = 1
    /\ locationError = ""
    /\ isDialogOpen = FALSE
    /\ qrDataUrl = ""
    /\ qrLoading = FALSE
    /\ showTypewriter = (variant = "part000")
    /\ displayText = << >>
    /\ currentIndex = 0
    /\ locPc = "mount"
    /\ position = Null
    /\ submitPc = "idle"
    /\ body = Null
    /\ response = Null
    /\ requests = 0
    /\ lastOp = "init"
    /\ ret = Null

----------------------------------------------------------------------------
(* Mount effect and detectLocation *)

\* Mutant of Mount: the effect returns after setting the campaign error.
Mount_ReturnsOnMissingCampaign ==
    /\ locPc = "mount"
    /\ IF ~TruthyParam(campaignId)
       THEN /\ error' = MsgCampaignRequired
            /\ UNCHANGED << locationError, locationLoading, locPc >>
       ELSE /\ UNCHANGED error
            /\ IF ~geolocation
               THEN /\ locationError' = MsgGeoUnsupported
                    /\ locationLoading' = FALSE
                    /\ locPc' = "done"
               ELSE /\ locationError' = ""
                    /\ locPc' = "position"
                    /\ UNCHANGED locationLoading
    /\ lastOp' = "Mount"
    /\ UNCHANGED << config, typewriter, position, submission, dialog,
                    formData, success, loading, step, ret >>

\* useEffect(..., [campaignId]) with the synchronous head of detectLocation.
Mount ==
    /\ locPc = "mount"
    /\ error' = IF ~TruthyParam(campaignId) THEN MsgCampaignRequired ELSE error
    /\ IF ~geolocation
       THEN /\ locationError' = MsgGeoUnsupported
            /\ locationLoading' = FALSE
            /\ locPc' = "done"
       ELSE /\ locationError' = ""
            /\ locPc' = "position"
            /\ UNCHANGED locationLoading
    /\ lastOp' = "Mount"
    /\ UNCHANGED << config, typewriter, position, submission, dialog,
                    formData, success, loading, step, ret >>

\* getCurrentPosition calls resolve.
PositionResolved ==
    /\ locPc = "position"
    /\ \E lat \in Latitudes, lon \in Longitudes :
           position' = Some([ latitude |-> lat, longitude |-> lon ])
    /\ locPc' = "fetch"
    /\ lastOp' = "PositionResolved"
    /\ UNCHANGED << config, typewriter, submission, dialog, locationLoading,
                    locationError, formData, error, success, loading, step, ret >>

\* Mutant of PositionRejected: the rejection is caught without the finally.
PositionRejected_NoFinally ==
    /\ locPc = "position"
    /\ \E code \in { 1, 2, 3 } :
           locationError' = IF code = 1 THEN MsgGeoDenied ELSE MsgGeoError
    /\ locPc' = "done"
    /\ lastOp' = "PositionRejected"
    /\ UNCHANGED << config, typewriter, submission, dialog, position, locationLoading,
                    formData, error, success, loading, step, ret >>

\* getCurrentPosition calls reject with a GeolocationPositionError of that code.
PositionRejected ==
    /\ locPc = "position"
    /\ \E code \in { 1, 2, 3 } :
           locationError' = IF code = 1 THEN MsgGeoDenied ELSE MsgGeoError
    /\ locationLoading' = FALSE
    /\ locPc' = "done"
    /\ lastOp' = "PositionRejected"
    /\ UNCHANGED << config, typewriter, submission, dialog, position,
                    formData, error, success, loading, step, ret >>

\* The reverse-geocoding fetch resolves (whatever its status: it is not inspected).
GeocodeFetched ==
    /\ locPc = "fetch"
    /\ locPc' = "json"
    /\ lastOp' = "GeocodeFetched"
    /\ UNCHANGED << config, typewriter, submission, dialog, position, locationLoading,
                    locationError, formData, error, success, loading, step, ret >>

\* Mutant of GeocodeFailed: the coordinates are stored before the address is asked for.
GeocodeFailed_StoresCoordinates ==
    /\ locPc \in { "fetch", "json" }
    /\ formData' = [ formData EXCEPT
                       !.latitude = Some(position[1].latitude),
                       !.longitude = Some(position[1].longitude) ]
    /\ locationError' = MsgGeocodeFailed
    /\ locationLoading' = FALSE
    /\ locPc' = "done"
    /\ lastOp' = "GeocodeFailed"
    /\ UNCHANGED << config, typewriter, submission, dialog, position,
                    error, success, loading, step, ret >>

\* Mutant of GeocodeFailed: the catch branch lacks the finally that clears the flag.
GeocodeFailed_KeepsLoading ==
    /\ locPc \in { "fetch", "json" }
    /\ locationError' = MsgGeocodeFailed
    /\ locPc' = "done"
    /\ lastOp' = "GeocodeFailed"
    /\ UNCHANGED << config, typewriter, submission, dialog, position, locationLoading,
                    formData, error, success, loading, step, ret >>

\* The reverse-geocoding fetch rejects, or its body is not JSON.
GeocodeFailed ==
    /\ locPc \in { "fetch", "json" }
    /\ locationError' = MsgGeocodeFailed
    /\ locationLoading' = FALSE
    /\ locPc' = "done"
    /\ lastOp' = "GeocodeFailed"
    /\ UNCHANGED << config, typewriter, submission, dialog, position,
                    formData, error, success, loading, step, ret >>

\* Mutant of GeocodeParsed: data.display_name is stored without the fallback.
GeocodeParsed_NoFallback ==
    /\ locPc = "json"
    /\ \E name \in DisplayNames :
           formData' = [ formData EXCEPT
                           !.latitude = Some(position[1].latitude),
                           !.longitude = Some(position[1].longitude),
                           !.address = name ]
    /\ locationLoading' = FALSE
    /\ locPc' = "done"
    /\ lastOp' = "GeocodeParsed"
    /\ UNCHANGED << config, typewriter, submission, dialog, position, locationError,
                    error, success, loading, step, ret >>

\* response.json() resolves: the coordinates and the address are stored.
GeocodeParsed ==
    /\ locPc = "json"
    /\ \E name \in DisplayNames :
           formData' = [ formData EXCEPT
                           !.latitude = Some(position[1].latitude),
                           !.longitude = Some(position[1].longitude),
                           !.address = IF name # "" THEN name ELSE MsgAddressNotFound ]
    /\ locationLoading' = FALSE
    /\ locPc' = "done"
    /\ lastOp' = "GeocodeParsed"
    /\ UNCHANGED << config, typewriter, submission, dialog, position, locationError,
                    error, success, loading, step, ret >>

----------------------------------------------------------------------------
(* Typewriter intro of part_000 *)

\* The 150 ms timer of TypewriterText fires.
TypewriterTick ==
    /\ locPc # "mount"
    /\ showTypewriter
    /\ currentIndex < Len(fullText)
    /\ displayText' = Append(displayText, fullText[currentIndex + 1])
    /\ currentIndex' = currentIndex + 1
    /\ lastOp' = "TypewriterTick"
    /\ UNCHANGED << config, location, submission, dialog, showTypewriter,
                    formData, error, success, loading, step, ret >>

\* Mutant of TypewriterComplete: onComplete() is called whatever the index.
TypewriterComplete_Early ==
    /\ locPc # "mount"
    /\ showTypewriter
    /\ showTypewriter' = FALSE
    /\ lastOp' = "TypewriterComplete"
    /\ UNCHANGED << config, location, submission, dialog, displayText, currentIndex,
                    formData, error, success, loading, step, ret >>

\* The 1000 ms timer fires: onComplete() = setShowTypewriter(false).
TypewriterComplete ==
    /\ locPc # "mount"
    /\ showTypewriter
    /\ currentIndex >= Len(fullText)
    /\ showTypewriter' = FALSE
    /\ lastOp' = "TypewriterComplete"
    /\ UNCHANGED << config, location, submission, dialog, displayText, currentIndex,
                    formData, error, success, loading, step, ret >>

----------------------------------------------------------------------------
(* Form handlers *)

\* onChange of a rendered input: the trimmed value is written, the error cleared.
handleChange ==
    /\ FormShown
    /\ \E name \in RenderedInputs(step, variant) :
         \E value \in InputValues(name) :
             formData' = [ formData EXCEPT ![name] = trim(value) ]
    /\ error' = ""
    /\ lastOp' = "handleChange"
    /\ UNCHANGED << config, typewriter, location, submission, dialog,
                    success, loading, step, ret >>

\* Mutant of handleSubmit: setQrDataUrl("") at the head of the handler is left out.
handleSubmit_KeepsImage ==
    /\ FormShown
    /\ ~SubmitDisabled
    /\ LET path == SubmitPath(step, formData, variant, apiUrl) IN
         /\ path = "post" => requests < MaxRequests
         /\ success' = ""
         /\ merchantData' = Null
         /\ error' = CASE path = "invalid" /\ step = 1 -> validateStep1Error(formData, variant)
                       [] path = "invalid" /\ step # 1 -> validateStep2Error(formData)
                       [] path = "config" -> MsgApiUrl
                       [] OTHER -> ""
         /\ step' = IF path = "next" THEN 2 ELSE step
         /\ ret' = Some(path # "invalid")
         /\ IF path = "post"
            THEN /\ loading' = TRUE
                 /\ submitPc' = "fetch"
                 /\ body' = Some(formData)
                 /\ response' = Null
                 /\ requests' = requests + 1
            ELSE UNCHANGED << loading, submission >>
    /\ lastOp' = "handleSubmit"
    /\ UNCHANGED << config, typewriter, location, formData, isDialogOpen, qrLoading,
                    qrDataUrl >>

\* Mutant of handleSubmit: setMerchantData(null) at the head of the handler is left out.
handleSubmit_KeepsResult ==
    /\ FormShown
    /\ ~SubmitDisabled
    /\ LET path == SubmitPath(step, formData, variant, apiUrl) IN
         /\ path = "post" => requests < MaxRequests
         /\ success' = ""
         /\ qrDataUrl' = ""
         /\ error' = CASE path = "invalid" /\ step = 1 -> validateStep1Error(formData, variant)
                       [] path = "invalid" /\ step # 1 -> validateStep2Error(formData)
                       [] path = "config" -> MsgApiUrl
                       [] OTHER -> ""
         /\ step' = IF path = "next" THEN 2 ELSE step
         /\ ret' = Some(path # "invalid")
         /\ IF path = "post"
            THEN /\ loading' = TRUE
                 /\ submitPc' = "fetch"
                 /\ body' = Some(formData)
                 /\ response' = Null
                 /\ requests' = requests + 1
            ELSE UNCHANGED << loading, submission >>
    /\ lastOp' = "handleSubmit"
    /\ UNCHANGED << config, typewriter, location, formData, isDialogOpen, qrLoading,
                    merchantData >>

\* Mutant of handleSubmit: setSuccess("") at the head of the handler is left out.
handleSubmit_KeepsSuccess ==
    /\ FormShown
    /\ ~SubmitDisabled
    /\ LET path == SubmitPath(step, formData, variant, apiUrl) IN
         /\ path = "post" => requests < MaxRequests
         /\ merchantData' = Null
         /\ qrDataUrl' = ""
         /\ error' = CASE path = "invalid" /\ step = 1 -> validateStep1Error(formData, variant)
                       [] path = "invalid" /\ step # 1 -> validateStep2Error(formData)
                       [] path = "config" -> MsgApiUrl
                       [] OTHER -> ""
         /\ step' = IF path = "next" THEN 2 ELSE step
         /\ ret' = Some(path # "invalid")
         /\ IF path = "post"
            THEN /\ loading' = TRUE
                 /\ submitPc' = "fetch"
                 /\ body' = Some(formData)
                 /\ response' = Null
                 /\ requests' = requests + 1
            ELSE UNCHANGED << loading, submission >>
    /\ lastOp' = "handleSubmit"
    /\ UNCHANGED << config, typewriter, location, formData, isDialogOpen, qrLoading,
                    success >>

\* onSubmit of the form, up to its first await (or its return).
\* The handler is modelled for every value of the fields: the browser's own
\* constraint validation (required, pattern) is not relied on.
handleSubmit ==
    /\ FormShown
    /\ ~SubmitDisabled
    /\ LET path == SubmitPath(step, formData, variant, apiUrl) IN
         /\ path = "post" => requests < MaxRequests
         /\ success' = ""
         /\ merchantData' = Null
         /\ qrDataUrl' = ""
         /\ error' = CASE path = "invalid" /\ step = 1 -> validateStep1Error(formData, variant)
                       [] path = "invalid" /\ step # 1 -> validateStep2Error(formData)
                       [] path = "config" -> MsgApiUrl
                       [] OTHER -> ""
         /\ step' = IF path = "next" THEN 2 ELSE step
         /\ ret' = Some(path # "invalid")
         /\ IF path = "post"
            THEN /\ loading' = TRUE
                 /\ submitPc' = "fetch"
                 /\ body' = Some(formData)
                 /\ response' = Null
                 /\ requests' = requests + 1
            ELSE UNCHANGED << loading, submission >>
    /\ lastOp' = "handleSubmit"
    /\ UNCHANGED << config, typewriter, location, formData, isDialogOpen, qrLoading >>

\* The creation fetch resolves with an HTTP status that is OK or not.
CreateFetched ==
    /\ submitPc = "fetch"
    /\ \E ok \in BOOLEAN : response' = Some([ ok |-> ok, data |-> Null ])
    /\ submitPc' = "json"
    /\ lastOp' = "CreateFetched"
    /\ UNCHANGED << config, typewriter, location, dialog, body, requests,
                    formData, error, success, loading, step, ret >>

\* Mutant of CreateFailed: a rejected fetch is retried.
CreateFailed_Retries ==
    /\ submitPc \in { "fetch", "json" }
    /\ requests' = requests + 1
    /\ submitPc' = "fetch"
    /\ lastOp' = "CreateFailed"
    /\ UNCHANGED << config, typewriter, location, dialog, body, response,
                    formData, error, success, loading, step, ret >>

\* The creation fetch rejects (TypeError), or the body is not JSON (SyntaxError):
\* catch sets the error's message, finally clears loading.
CreateFailed ==
    /\ submitPc \in { "fetch", "json" }
    /\ error' = IF submitPc = "fetch" THEN MsgFetchFailed ELSE MsgBadJson
    /\ loading' = FALSE
    /\ submitPc' = "idle"
    /\ lastOp' = "CreateFailed"
    /\ UNCHANGED << config, typewriter, location, dialog, body, response, requests,
                    formData, success, step, ret >>

\* Mutant of Finish: the reset keeps the detected coordinates.
Finish_KeepsCoordinates ==
    /\ formData' = [ initialFormState(campaignId, companyId) EXCEPT
                       !.latitude = formData.latitude,
                       !.longitude = formData.longitude ]
    /\ step' = 1
    /\ isDialogOpen' = TRUE
    /\ loading' = FALSE
    /\ submitPc' = "idle"

\* Mutant of Finish: setStep(1) is left out.
Finish_KeepsStep ==
    /\ formData' = initialFormState(campaignId, companyId)
    /\ UNCHANGED step
    /\ isDialogOpen' = TRUE
    /\ loading' = FALSE
    /\ submitPc' = "idle"

\* What handleSubmit does once the QR await is over, or when there is no QR link.
Finish ==
    /\ formData' = initialFormState(campaignId, companyId)
    /\ step' = 1
    /\ isDialogOpen' = TRUE
    /\ loading' = FALSE
    /\ submitPc' = "idle"

\* response.json() resolves with the answer's body.
CreateParsed ==
    /\ submitPc = "json"
    /\ \E data \in ApiResponses :
         /\ response' = Some([ ok |-> response[1].ok, data |-> Some(data) ])
         /\ IF ~response[1].ok
            THEN /\ error' = CreateError(data)
                 /\ loading' = FALSE
                 /\ submitPc' = "idle"
                 /\ UNCHANGED << formData, success, step, dialog >>
            ELSE /\ success' = MsgCreated
                 /\ merchantData' = data.merchant
                 /\ IF HasQrLink(data)
                    THEN /\ qrLoading' = TRUE
                         /\ submitPc' = "qr"
                         /\ UNCHANGED << formData, step, isDialogOpen, loading >>
                    ELSE /\ Finish
                         /\ UNCHANGED qrLoading
                 /\ UNCHANGED << error, qrDataUrl >>
    /\ lastOp' = "CreateParsed"
    /\ UNCHANGED << config, typewriter, location, body, requests, ret >>

\* Mutant of generateQRForDisplay: setQrDataUrl is left out.
generateQRForDisplay_NoStore(link) == ""

\* The image generateQRForDisplay stores when qrcode.toDataURL resolves.
generateQRForDisplay(link) == toDataURL(link)

\* qrcode.toDataURL resolves: the image is stored and handleSubmit finishes.
QrRendered ==
    /\ submitPc = "qr"
    /\ qrDataUrl' = generateQRForDisplay(response[1].data[1].merchant[1].qrLink)
    /\ qrLoading' = FALSE
    /\ Finish
    /\ lastOp' = "QrRendered"
    /\ UNCHANGED << config, typewriter, location, body, response, requests,
                    merchantData, error, success, ret >>

\* qrcode.toDataURL rejects: the error is set and handleSubmit finishes all the same.
QrFailed ==
    /\ submitPc = "qr"
    /\ error' = MsgQrDisplayFailed
    /\ qrLoading' = FALSE
    /\ Finish
    /\ lastOp' = "QrFailed"
    /\ UNCHANGED << config, typewriter, location, body, response, requests,
                    merchantData, qrDataUrl, success, ret >>

----------------------------------------------------------------------------
(* Completion dialog *)

\* onClick of "Download QR Code" (disabled={!qrDataUrl || qrLoading}).
generateMerchantQR ==
    /\ FormShown
    /\ isDialogOpen
    /\ qrDataUrl # "" /\ ~qrLoading
    /\ IF merchantData = Null \/ merchantData[1].qrLink = ""
       THEN error' = MsgQrLinkMissing /\ UNCHANGED success
       ELSE success' = MsgDownloaded /\ UNCHANGED error
    /\ lastOp' = "generateMerchantQR"
    /\ UNCHANGED << config, typewriter, location, submission, dialog,
                    formData, loading, step, ret >>

\* Mutant of closeDialog: setQrDataUrl("") is left out.
closeDialog_KeepsImage ==
    /\ FormShown
    /\ isDialogOpen
    /\ isDialogOpen' = FALSE
    /\ lastOp' = "closeDialog"
    /\ UNCHANGED << config, typewriter, location, submission, qrLoading, merchantData,
                    qrDataUrl, formData, error, success, loading, step, ret >>

\* onClick of "Close".
closeDialog ==
    /\ FormShown
    /\ isDialogOpen
    /\ isDialogOpen' = FALSE
    /\ qrDataUrl' = ""
    /\ lastOp' = "closeDialog"
    /\ UNCHANGED << config, typewriter, location, submission, qrLoading, merchantData,
                    formData, error, success, loading, step, ret >>

----------------------------------------------------------------------------
(* The form *)

Next ==
    \/ Mount
    \/ PositionResolved
    \/ PositionRejected
    \/ GeocodeFetched
    \/ GeocodeFailed
    \/ GeocodeParsed
    \/ TypewriterTick
    \/ TypewriterComplete
    \/ handleChange
    \/ handleSubmit
    \/ CreateFetched
    \/ CreateFailed
    \/ CreateParsed
    \/ QrRendered
    \/ QrFailed
    \/ generateMerchantQR
    \/ closeDialog

Spec == Init /\ [][Next]_vars

----------------------------------------------------------------------------
(* The validation functions on their own, over arbitrary form data *)

CompanyTexts == { << >>, << " " >>, Acme }
CampaignTexts == { << >>, Abc123 }
Coordinates == { Null, Some(0), Some(12) }

AnyFormData ==
    [ merchantName : NameInputs,
      upiId : UpiInputs,
      merchantMobile : MobileInputs,
      merchantEmail : EmailInputs,
      company : CompanyTexts,
      address : { "" },
      campaignId : CampaignTexts,
      latitude : Coordinates,
      longitude : Coordinates ]

ValidationInit ==
    /\ variant \in { "page", "part000" }
    /\ campaignId = Null /\ companyId = Null
    /\ apiUrl = TRUE /\ geolocation = TRUE
    /\ formData \in AnyFormData
    /\ error = "" /\ success = ""
    /\ loading = FALSE /\ locationLoading = FALSE
    /\ merchantData = Null
    /\ step = 1
    /\ locationError = ""
    /\ isDialogOpen = FALSE /\ qrDataUrl = "" /\ qrLoading = FALSE
    /\ showTypewriter = FALSE /\ displayText = << >> /\ currentIndex = 0
    /\ locPc = "done" /\ position = Null
    /\ submitPc = "idle" /\ body = Null /\ response = Null /\ requests = 0
    /\ lastOp = "init"
    /\ ret = Null

\* const ok = validateStep1()
RunValidateStep1 ==
    /\ lastOp = "init"
    /\ ret' = Some(validateStep1(formData, variant))
    /\ error' = IF validateStep1(formData, variant)
                THEN error
                ELSE validateStep1Error(formData, variant)
    /\ lastOp' = "validateStep1"
    /\ UNCHANGED << config, typewriter, location, submission, dialog,
                    formData, success, loading, step >>

\* const ok = validateStep2()
RunValidateStep2 ==
    /\ lastOp = "init"
    /\ ret' = Some(validateStep2(formData))
    /\ error' = IF validateStep2(formData) THEN error ELSE validateStep2Error(formData)
    /\ lastOp' = "validateStep2"
    /\ UNCHANGED << config, typewriter, location, submission, dialog,
                    formData, success, loading, step >>

ValidationNext == RunValidateStep1 \/ RunValidateStep2

ValidationSpec == ValidationInit /\ [][ValidationNext]_vars

----------------------------------------------------------------------------
(* Vocabulary of the properties, stated without the model's validators *)

IsBlank(s) == \A i \in 1..Len(s) : s[i] \in WhiteSpace

TenDigits(s) == Len(s) = 10 /\ \A i \in 1..Len(s) : s[i] \in Digits

\* name@handle: one "@" between two non-empty runs of letters, digits, "_", "." and "-"
NameAtHandle(s) ==
    \E k \in 1..Len(s) :
        /\ 1 < k /\ k < Len(s)
        /\ s[k] = "@"
        /\ \A i \in 1..(k - 1) : s[i] \in UpiChars
        /\ \A i \in (k + 1)..Len(s) : s[i] \in UpiChars

CoordinateSet(c) == c # Null /\ c # Some(0)

\* Every Step-1 check passes on fd (the e-mail check exists in page.tsx only).
Step1Passes(fd, v) ==
    /\ ~IsBlank(fd.merchantName)
    /\ TenDigits(fd.merchantMobile)
    /\ v = "page" => (fd.merchantEmail = << >> \/ \E i \in 1..Len(fd.merchantEmail) :
                                                      fd.merchantEmail[i] = "@")
    /\ CoordinateSet(fd.latitude) /\ CoordinateSet(fd.longitude)

\* Every Step-2 check passes on fd.
Step2Passes(fd) ==
    /\ NameAtHandle(fd.upiId)
    /\ ~IsBlank(fd.company)
    /\ fd.campaignId # << >>

\* The default form: all fields empty, no coordinates, campaign and company from the query.
DefaultForm ==
    [ merchantName |-> << >>, upiId |-> << >>, merchantMobile |-> << >>,
      merchantEmail |-> << >>, address |-> "",
      latitude |-> Null, longitude |-> Null,
      company |-> IF companyId = Null THEN << >> ELSE companyId[1],
      campaignId |-> IF campaignId = Null THEN << >> ELSE campaignId[1] ]

\* This step is handleSubmit running.
SubmitStep == lastOp' = "handleSubmit"

\* This step ends the handling of a creation response whose status was OK / not OK.
OkResponseEnds ==
    /\ submitPc \in { "json", "qr" } /\ submitPc' = "idle"
    /\ lastOp' \in { "CreateParsed", "QrRendered", "QrFailed" }
NonOkResponseEnds ==
    /\ submitPc = "json" /\ submitPc' = "idle"
    /\ ~response[1].ok

----------------------------------------------------------------------------
(* Properties *)

\* C1: step = 2 is entered only by a submit at step 1 whose Step-1 validation
\* passed, and whenever step = 2 the form data has a non-empty merchantName, a
\* merchantMobile of exactly 10 digits and both coordinates set.
C1_Step2OnlyAfterStep1Valid ==
    /\ [](step = 2 =>
            /\ formData.merchantName # << >>
            /\ TenDigits(formData.merchantMobile)
            /\ CoordinateSet(formData.latitude) /\ CoordinateSet(formData.longitude))
    /\ [][(step # 2 /\ step' = 2) =>
            (SubmitStep /\ step = 1 /\ Step1Passes(formData, variant))]_vars

\* C1 witness: a submit at step 1 has just passed validation and entered step 2.
C1_Witness == step = 2 /\ lastOp = "handleSubmit" /\ ret = Some(TRUE)

\* C2: a creation POST is issued only by a submit at step 2; its body is the form
\* data at that submit, which passes every Step-1 and every Step-2 check.
C2_PostOnlyAfterBothSteps ==
    [][requests' # requests =>
        /\ SubmitStep
        /\ step = 2
        /\ requests' = requests + 1
        /\ body' = Some(formData)
        /\ Step1Passes(formData, variant)
        /\ Step2Passes(formData)]_vars

\* C2 witness: a submit has just issued the creation request.
C2_Witness == lastOp = "handleSubmit" /\ submitPc = "fetch" /\ body = Some(formData)

\* C3: a submit at step 1 issues no network call; if Step-1 validation passes the
\* step becomes 2, otherwise it stays 1 and an error message is set.
C3_Step1SubmitNoRequest ==
    [][(SubmitStep /\ step = 1) =>
        /\ requests' = requests
        /\ submitPc' = "idle" /\ ~loading'
        /\ IF Step1Passes(formData, variant)
           THEN step' = 2 /\ error' = ""
           ELSE step' = 1 /\ error' # ""]_vars

\* C3 witness: a submit at step 1 passed with every Step-1 field valid, and no
\* request has been issued.
C3_Witness ==
    /\ lastOp = "handleSubmit" /\ step = 2 /\ ret = Some(TRUE)
    /\ Step1Passes(formData, variant)
    /\ requests = 0 /\ submitPc = "idle"

\* C4 as stated: each submit at step 2 with valid Step-1 and Step-2 data issues
\* exactly one creation request, and only a submit ever issues one.
C4_Original ==
    /\ [][(SubmitStep /\ step = 2 /\ Step1Passes(formData, variant) /\ Step2Passes(formData))
            => requests' = requests + 1]_vars
    /\ [][requests' # requests => SubmitStep]_vars

\* C4 amended: each submit at step 2 with valid Step-1 and Step-2 data issues
\* exactly one creation request when the base API URL is configured and none when
\* it is not; only a submit ever issues a request, so a failed call is not retried.
C4_OneRequestPerSubmit ==
    /\ [][(SubmitStep /\ step = 2 /\ Step1Passes(formData, variant) /\ Step2Passes(formData))
            => requests' = requests + (IF apiUrl THEN 1 ELSE 0)]_vars
    /\ [][requests' # requests => SubmitStep]_vars

\* C4 witness: a creation call has failed and left the count of requests at one.
C4_Witness == lastOp = "CreateFailed" /\ requests = 1 /\ submitPc = "idle"

\* C5 as stated: a non-OK creation response leaves step 2, a non-empty error that
\* is the server's message or the generic fallback, loading false, the dialog
\* closed, no result stored and the form data unchanged.
C5_NonOkResponse ==
    [][NonOkResponseEnds =>
        /\ step' = 2
        /\ error' # "" /\ error' \in { MsgServer, MsgCreateFailed }
        /\ ~loading'
        /\ ~isDialogOpen'
        /\ merchantData' = Null
        /\ formData' = formData]_vars

\* C6 as stated: an OK creation response without a merchant record is a failure:
\* an error is set, the form stays at step 2 with its data, no success message is
\* set and the dialog is not opened.
C6_OkWithoutMerchantFails ==
    [][(OkResponseEnds /\ response'[1].ok /\ response'[1].data[1].merchant = Null) =>
        /\ error' # ""
        /\ step' = 2
        /\ formData' = formData
        /\ success' = ""
        /\ ~isDialogOpen']_vars

\* C7: after a successful submission (OK response with a merchant record) the form
\* data is the default form, step = 1, the dialog is open and loading = false.
C7_ResetAfterSuccess ==
    [][(OkResponseEnds /\ response'[1].ok /\ response'[1].data[1].merchant # Null) =>
        /\ formData' = DefaultForm
        /\ step' = 1
        /\ isDialogOpen'
        /\ ~loading']_vars

\* C7 witness: a creation answered OK with a merchant record has just finished.
C7_Witness ==
    /\ lastOp \in { "CreateParsed", "QrRendered", "QrFailed" } /\ submitPc = "idle"
    /\ response # Null /\ response[1].ok /\ response[1].data[1].merchant # Null
    /\ isDialogOpen

\* The dialog opens for a merchant record that carries a qrLink.
DialogOpensWithLink ==
    /\ ~isDialogOpen /\ isDialogOpen'
    /\ merchantData' # Null /\ merchantData'[1].qrLink # ""

\* C8 as stated: when the dialog opens for a merchant record with a qrLink, the
\* rendered QR image is non-empty and qrLoading is false.
C8_Original == [][DialogOpensWithLink => (qrDataUrl' # "" /\ ~qrLoading')]_vars

\* C8 amended: when the dialog opens for a merchant record with a qrLink, the QR
\* rendering is over (qrLoading is false); the rendered image is the PNG data URL
\* of that link, unless the rendering failed, and then the image is empty and the
\* error is "Failed to generate QR code display".
C8_QrSettledBeforeDialog ==
    [][DialogOpensWithLink =>
        /\ ~qrLoading'
        /\ \/ /\ qrDataUrl' = toDataURL(merchantData'[1].qrLink)
              /\ qrDataUrl' # ""
           \/ /\ lastOp' = "QrFailed"
              /\ qrDataUrl' = ""
              /\ error' = MsgQrDisplayFailed]_vars

\* C8 witness: the QR image was rendered and the dialog is open.
C8_Witness ==
    /\ lastOp = "QrRendered" /\ isDialogOpen /\ ~qrLoading
    /\ merchantData # Null /\ qrDataUrl = toDataURL(merchantData[1].qrLink)

\* C9 as stated: a merchantMobile that is not exactly 10 digits makes Step-1
\* validation fail with the mobile-format error, whatever the other fields.
C9_Original ==
    (lastOp = "validateStep1" /\ ~TenDigits(formData.merchantMobile)) =>
        (ret = Some(FALSE) /\ error = MsgMobileFormat)

\* C9 amended: a merchantMobile that is not exactly 10 digits makes Step-1
\* validation fail, whatever the other fields; the error is the mobile-format
\* error when merchantName and merchantMobile are both non-empty after trim,
\* "Merchant name is required" when merchantName is empty after trim, and
\* "Mobile number is required" otherwise.
C9_MobileFormatFails ==
    (lastOp = "validateStep1" /\ ~TenDigits(formData.merchantMobile)) =>
        /\ ret = Some(FALSE)
        /\ error = IF IsBlank(formData.merchantName) THEN MsgNameRequired
                   ELSE IF IsBlank(formData.merchantMobile) THEN MsgMobileRequired
                   ELSE MsgMobileFormat

\* C9 witness: validation has rejected an 11-digit number with the format error
\* although every other field is valid.
C9_Witness ==
    /\ lastOp = "validateStep1" /\ ret = Some(FALSE) /\ error = MsgMobileFormat
    /\ formData.merchantMobile = Mobile11
    /\ formData.merchantName = CafeX
    /\ CoordinateSet(formData.latitude) /\ CoordinateSet(formData.longitude)

\* C10 as stated: a upiId that is not of the form name@handle makes Step-2
\* validation fail with the UPI-format error.
C10_Original ==
    (lastOp = "validateStep2" /\ ~NameAtHandle(formData.upiId)) =>
        (ret = Some(FALSE) /\ error = MsgUpiFormat)

\* C10 amended: a upiId that is not of the form name@handle makes Step-2
\* validation fail; the error is the UPI-format error when upiId is non-empty
\* after trim and "UPI ID is required" when it is empty after trim.
C10_UpiFormatFails ==
    (lastOp = "validateStep2" /\ ~NameAtHandle(formData.upiId)) =>
        /\ ret = Some(FALSE)
        /\ error = IF IsBlank(formData.upiId) THEN MsgUpiRequired ELSE MsgUpiFormat

\* C10 witness: validation has rejected a upiId with two "@" with the format error.
C10_Witness ==
    /\ lastOp = "validateStep2" /\ ret = Some(FALSE) /\ error = MsgUpiFormat
    /\ formData.upiId = << "c", "@", "u", "@", "p" >>

\* The error of the first Step-1 check that fails on fd, "" when none fails.
FirstStep1Failure(fd, v) ==
    IF IsBlank(fd.merchantName) THEN MsgNameRequired
    ELSE IF fd.merchantMobile = << >> THEN MsgMobileRequired
    ELSE IF ~TenDigits(fd.merchantMobile) THEN MsgMobileFormat
    ELSE IF /\ v = "page"
            /\ fd.merchantEmail # << >>
            /\ \A i \in 1..Len(fd.merchantEmail) : fd.merchantEmail[i] # "@"
         THEN MsgEmailFormat
    ELSE IF fd.latitude \in { Null, Some(0) } \/ fd.longitude \in { Null, Some(0) }
         THEN MsgLocationRequired
    ELSE ""

\* The error of the first Step-2 check that fails on fd, "" when none fails.
FirstStep2Failure(fd) ==
    IF fd.upiId = << >> THEN MsgUpiRequired
    ELSE IF ~NameAtHandle(fd.upiId) THEN MsgUpiFormat
    ELSE IF IsBlank(fd.company) THEN MsgCompanyRequired
    ELSE IF fd.campaignId = << >> THEN MsgCampaignMissing
    ELSE ""

\* C11: Step-1 validation reports the error of the first failing check, in the
\* order name empty after trim, mobile empty, mobile not 10 digits, e-mail without
\* "@" (page.tsx only), latitude or longitude null or 0, and no other error; it
\* passes exactly when none of these checks fails.
C11_Step1FirstFailureWins ==
    lastOp = "validateStep1" =>
        /\ ret = Some(FirstStep1Failure(formData, variant) = "")
        /\ error = FirstStep1Failure(formData, variant)
        /\ (ret = Some(TRUE)) <=> Step1Passes(formData, variant)

\* C11 witness: the mobile format, the e-mail and the location all fail, and the
\* mobile-format error, the first of them, is the one reported.
C11_Witness ==
    /\ lastOp = "validateStep1" /\ variant = "page"
    /\ formData.merchantName = CafeX
    /\ formData.merchantMobile = Mobile5
    /\ formData.merchantEmail = << "a", "b" >>
    /\ formData.latitude = Null
    /\ error = MsgMobileFormat /\ ret = Some(FALSE)

\* C12: Step-2 validation reports the error of the first failing check, in the
\* order upiId empty, upiId not name@handle, company empty, campaignId absent; it
\* passes exactly when none of these checks fails.
C12_Step2FirstFailureWins ==
    lastOp = "validateStep2" =>
        /\ ret = Some(FirstStep2Failure(formData) = "")
        /\ error = FirstStep2Failure(formData)
        /\ (ret = Some(TRUE)) <=> Step2Passes(formData)

\* C12 witness: company and campaignId are both missing under a valid upiId, and
\* the company error, the first of the two, is the one reported.
C12_Witness ==
    /\ lastOp = "validateStep2"
    /\ formData.upiId = CafeUpi
    /\ formData.company = << >> /\ formData.campaignId = << >>
    /\ error = MsgCompanyRequired /\ ret = Some(FALSE)

DetectionStarts == lastOp' = "Mount"

\* This step starts the QR rendering.
QrStarts == submitPc # "qr" /\ submitPc' = "qr"

\* The error a submit itself produces on the state it runs in, "" when none.
SubmitError ==
    IF step = 1 THEN FirstStep1Failure(formData, variant)
    ELSE IF FirstStep2Failure(formData) # "" THEN FirstStep2Failure(formData)
    ELSE IF ~apiUrl THEN MsgApiUrl
    ELSE ""

\* A submit leaves no success message and no error but its own.
SubmitClearsMessages == SubmitStep => (success' = "" /\ error' = SubmitError)

\* C14 as stated: a submit, a location detection and a QR rendering each clear the
\* prior error and success messages at their start.
C14_Original ==
    [][/\ SubmitClearsMessages
       /\ (DetectionStarts \/ QrStarts) => (error' = "" /\ success' = "")]_vars

\* C14 amended: a submit clears the prior error and success messages at its
\* start, so that after it the success message is empty and the error is the one
\* this submit produced, if any.  The start of location detection clears the
\* location error only (the error the mount effect has just set stays), and the
\* start of the QR rendering clears no message (the success message
\* "Merchant created successfully!" stays).
C14_OnlySubmitClearsMessages ==
    [][/\ SubmitClearsMessages
       /\ DetectionStarts =>
            /\ locationError' \in { "", MsgGeoUnsupported }
            /\ success' = success
            /\ error' = IF campaignId \in { Null, Some(<< >>) }
                        THEN MsgCampaignRequired
                        ELSE error
       /\ QrStarts => (success' = MsgCreated /\ error' = error)]_vars

\* C14 witness: a submit made while the dialog of a successful creation is open
\* has cleared that creation's success message.
C14_Witness == lastOp = "handleSubmit" /\ isDialogOpen /\ success = ""

\* t is v without its leading and trailing white space.
IsTrimOf(t, v) ==
    \E i \in 1..(Len(v) + 1) : \E j \in 0..Len(v) :
        /\ t = SubSeq(v, i, j)
        /\ \A k \in 1..(i - 1) : v[k] \in WhiteSpace
        /\ \A k \in (j + 1)..Len(v) : v[k] \in WhiteSpace
        /\ t # << >> => (t[1] \notin WhiteSpace /\ t[Len(t)] \notin WhiteSpace)

\* The fields an input of the form can name.
InputNames == { "merchantName", "merchantMobile", "merchantEmail", "upiId" }

\* C15: a field change writes the trimmed new value into the one form field the
\* input names and clears the error; every other form field, the success message,
\* the step, the loading flags, the stored result, the QR image and the dialog
\* flag stay as they were.
C15_ChangeWritesOneField ==
    [][lastOp' = "handleChange" =>
        /\ \E name \in InputNames :
             /\ \E value \in InputValues(name) : IsTrimOf(formData'[name], value)
             /\ \A f \in (DOMAIN formData) \ { name } : formData'[f] = formData[f]
        /\ DOMAIN formData' = DOMAIN formData
        /\ error' = ""
        /\ UNCHANGED << success, step, loading, locationLoading, qrLoading,
                        merchantData, qrDataUrl, isDialogOpen >>]_vars

\* C15 witness: the merchant name was typed while the success message of a finished
\* creation is shown, and the message is still there.
C15_Witness ==
    /\ lastOp = "handleChange" /\ formData.merchantName = CafeX
    /\ error = "" /\ success = MsgCreated /\ isDialogOpen

\* C16: with no base API URL a submit at step 2 with valid data issues no request
\* and ends with "API URL is not configured", loading false, step 2 and the form
\* data unchanged.
C16_NoApiUrlNoRequest ==
    [][(SubmitStep /\ step = 2 /\ ~apiUrl
            /\ Step1Passes(formData, variant) /\ Step2Passes(formData)) =>
        /\ requests' = requests
        /\ submitPc' = "idle" /\ body' = body
        /\ error' = MsgApiUrl
        /\ ~loading'
        /\ step' = 2
        /\ formData' = formData]_vars

\* C16 witness: a valid submit at step 2 has ended with the configuration error.
C16_Witness ==
    /\ lastOp = "handleSubmit" /\ step = 2 /\ ~apiUrl
    /\ Step2Passes(formData)
    /\ error = MsgApiUrl /\ ~loading /\ requests = 0

\* The query string carries no campaign identifier.
NoCampaign == campaignId \in { Null, Some(<< >>) }

\* C17: the mount effect sets "Campaign ID is required" exactly when the query
\* string has no campaign identifier, and starts location detection either way;
\* the error does not keep the form off the screen: its inputs take changes as
\* soon as the component is mounted (part_000: and the intro is over).
C17_MountSetsErrorAndDetects ==
    /\ [][lastOp' = "Mount" =>
            /\ error' = IF NoCampaign THEN MsgCampaignRequired ELSE ""
            /\ IF geolocation
               THEN locPc' = "position" /\ locationLoading' /\ locationError' = ""
               ELSE locPc' = "done" /\ ~locationLoading'
                    /\ locationError' = MsgGeoUnsupported
            /\ formData' = formData /\ step' = 1 /\ success' = ""]_vars
    /\ []((lastOp = "Mount" /\ variant = "page") => ~showTypewriter)
    /\ []((locPc # "mount" /\ ~showTypewriter) => ENABLED handleChange)

\* C17 witness: mounted without a campaign identifier, the error is set, the
\* position request is pending and the form is on screen.
C17_Witness ==
    /\ lastOp = "Mount" /\ campaignId = Null /\ variant = "page"
    /\ error = MsgCampaignRequired
    /\ locPc = "position" /\ locationLoading
    /\ ~showTypewriter

\* A step in which the location detection reaches its end.
DetectionEnds == locPc # "done" /\ locPc' = "done"

\* The five ways a detection can end, as seen in the state it leaves.
DetectionOutcomes == { "stored", "unsupported", "denied", "generic", "geocode" }

DetectionOutcome(o) ==
    CASE o = "stored" ->
           /\ position # Null
           /\ formData'.latitude = Some(position[1].latitude)
           /\ formData'.longitude = Some(position[1].longitude)
           /\ formData'.address # ""
           /\ formData'.address \in DisplayNames \cup { MsgAddressNotFound }
           /\ \A f \in DOMAIN formData \ { "latitude", "longitude", "address" } :
                  formData'[f] = formData[f]
           /\ locationError' = ""
      [] o = "unsupported" ->
           ~geolocation /\ formData' = formData /\ locationError' = MsgGeoUnsupported
      [] o = "denied" ->
           lastOp' = "PositionRejected" /\ formData' = formData
           /\ locationError' = MsgGeoDenied
      [] o = "generic" ->
           lastOp' = "PositionRejected" /\ formData' = formData
           /\ locationError' = MsgGeoError
      [] o = "geocode" ->
           lastOp' = "GeocodeFailed" /\ formData' = formData
           /\ locationError' = MsgGeocodeFailed

\* C18: a location detection ends with locationLoading false and in exactly one
\* of five outcomes: coordinates and a non-empty address stored ("Address not
\* found" when the geocoder names none), or one of the four location errors with
\* the form data untouched; the step and the submit error are those it found
\* (the mount effect's own campaign check apart).
C18_DetectionOutcomes ==
    [][DetectionEnds =>
          /\ ~locationLoading'
          /\ Cardinality({ o \in DetectionOutcomes : DetectionOutcome(o) }) = 1
          /\ step' = step
          /\ success' = success
          /\ error' = IF lastOp' = "Mount" /\ NoCampaign
                      THEN MsgCampaignRequired ELSE error]_vars

\* C18 witness: a detection has ended with the fallback address stored.
C18_Witness ==
    /\ lastOp = "GeocodeParsed"
    /\ formData.address = MsgAddressNotFound
    /\ formData.latitude # Null
    /\ ~locationLoading /\ locationError = ""

\* A creation request or its follow-up is awaited by a running submit handler.
SubmitInFlight == submitPc # "idle"

\* The location detection has started and not ended.
DetectionInFlight == locPc \in { "position", "fetch", "json" }

\* C19: a submit is processed only when loading and locationLoading are both
\* false; hence it never starts while an earlier submit handler is still
\* awaiting (at most one creation request in flight) nor while the location
\* detection is in flight, and while either flag is set no submit can start.
C19_LoadingFlagsGateSubmit ==
    /\ [][SubmitStep =>
            /\ ~loading /\ ~locationLoading
            /\ ~SubmitInFlight
            /\ ~DetectionInFlight]_vars
    /\ []((loading \/ locationLoading) => ~ENABLED handleSubmit)
    /\ []((SubmitInFlight => loading) /\ (DetectionInFlight => locationLoading))

\* C19 witness: a second creation request was started by a submit, after the
\* first one had ended and released the loading flag.
C19_Witness ==
    /\ lastOp = "handleSubmit"
    /\ requests = 2
    /\ SubmitInFlight /\ loading
    /\ ~DetectionInFlight /\ ~locationLoading

----------------------------------------------------------------------------
(* Location detection whose calls settle *)

\* The getCurrentPosition call completes or fails.
PositionSettles == PositionResolved \/ PositionRejected

\* The reverse-geocoding call (the fetch and the reading of its body) completes
\* or fails.
GeocodeSettles == GeocodeFetched \/ GeocodeParsed \/ GeocodeFailed

\* The component is mounted and both calls of detectLocation eventually settle.
LiveSpec ==
    /\ Spec
    /\ WF_vars(Mount)
    /\ WF_vars(PositionSettles)
    /\ WF_vars(GeocodeSettles)

\* C20: as long as the geolocation or reverse-geocode call has not settled,
\* locationLoading is true, no submit can be processed, the step is 1 and no
\* request has been issued; locationLoading falls only in the step that ends
\* the detection; and when both calls settle, locationLoading eventually is
\* false.
C20_HungDetectionBlocksSubmit ==
    /\ [](DetectionInFlight =>
            /\ locationLoading
            /\ ~ENABLED handleSubmit
            /\ step = 1 /\ requests = 0 /\ ~SubmitInFlight)
    /\ [][(locationLoading /\ ~locationLoading') => DetectionEnds]_vars
    /\ <>~locationLoading

\* C20 witness: the reverse-geocode call is pending, the form has been filled
\* in meanwhile, and the submit is still blocked at step 1.
C20_Witness ==
    /\ locPc = "fetch" /\ lastOp = "handleChange"
    /\ locationLoading
    /\ TenDigits(formData.merchantMobile) /\ ~IsBlank(formData.merchantName)
    /\ step = 1 /\ requests = 0

\* A step of the dialog's close button.
CloseStep == lastOp' = "closeDialog"

\* C21: the close action sets the dialog flag to false and empties the rendered
\* QR image; the form data, the step, the three messages, the three loading
\* flags and the stored submission result are unchanged; after it the download
\* action cannot run.
C21_CloseDiscardsImage ==
    /\ [][CloseStep =>
            /\ isDialogOpen /\ ~isDialogOpen'
            /\ qrDataUrl' = ""
            /\ formData' = formData /\ step' = step
            /\ error' = error /\ success' = success /\ locationError' = locationError
            /\ loading' = loading /\ locationLoading' = locationLoading
            /\ qrLoading' = qrLoading
            /\ merchantData' = merchantData
            /\ requests' = requests]_vars
    /\ []((~isDialogOpen \/ qrDataUrl = "") => ~ENABLED generateMerchantQR)

\* C21 witness: a dialog that showed a rendered QR image has been closed; the
\* result and the success message are still there.
C21_Witness ==
    /\ lastOp = "closeDialog"
    /\ ~isDialogOpen /\ qrDataUrl = ""
    /\ merchantData # Null /\ merchantData[1].qrLink # ""
    /\ success = MsgCreated /\ error = ""

\* A step of the dialog's download button.
DownloadStep == lastOp' = "generateMerchantQR"

\* The stored submission result carries a QR link.
ResultHasQrLink == merchantData # Null /\ merchantData[1].qrLink # ""

\* C22: the download action can run only in an open dialog with a rendered QR
\* image (qrDataUrl non-empty, qrLoading false), and wherever it can run the
\* stored result carries a qrLink; so "QR link is missing" is never the error,
\* and a download sets the success message "QR code has been downloaded!" and
\* leaves the image, the dialog, the result and the error as they were.
C22_DownloadNeedsRenderedQr ==
    /\ [](ENABLED generateMerchantQR =>
            /\ isDialogOpen
            /\ qrDataUrl # "" /\ ~qrLoading
            /\ ResultHasQrLink)
    /\ [](qrDataUrl # "" => ResultHasQrLink)
    /\ [](error # MsgQrLinkMissing)
    /\ [][DownloadStep =>
            /\ success' = MsgDownloaded
            /\ error' = error
            /\ qrDataUrl' = qrDataUrl /\ isDialogOpen'
            /\ merchantData' = merchantData
            /\ formData' = formData /\ step' = step]_vars

\* C22 witness: the QR image was downloaded from the open dialog.
C22_Witness ==
    /\ lastOp = "generateMerchantQR"
    /\ success = MsgDownloaded
    /\ isDialogOpen /\ qrDataUrl # "" /\ ~qrLoading
    /\ ResultHasQrLink

\* The creation response held by handleSubmit is an OK one whose merchant is
\* the stored result.
ResultFromOkResponse ==
    /\ requests >= 1
    /\ response # Null /\ response[1].ok
    /\ response[1].data # Null
    /\ response[1].data[1].merchant = merchantData

\* C23: every submit, whatever the step and the outcome of validation, leaves
\* the stored result null and the rendered QR image empty; the result becomes
\* non-null only in the step that reads an OK creation response, and whenever
\* it is non-null it is the merchant of the OK response of the last request
\* and no submit has run since.
C23_ResultOnlyAfterSuccess ==
    /\ [][SubmitStep => merchantData' = Null /\ qrDataUrl' = ""]_vars
    /\ [][(merchantData' # Null /\ merchantData' # merchantData) =>
            /\ lastOp' = "CreateParsed"
            /\ response' # Null /\ response'[1].ok
            /\ success' = MsgCreated]_vars
    /\ [](merchantData # Null => ResultFromOkResponse /\ lastOp # "handleSubmit")
    /\ [](lastOp = "handleSubmit" => merchantData = Null /\ qrDataUrl = "")

\* C23 witness: a submit that failed Step-1 validation has cleared the result
\* of the creation that succeeded before it.
C23_Witness ==
    /\ lastOp = "handleSubmit" /\ ret = Some(FALSE) /\ step = 1
    /\ merchantData = Null /\ qrDataUrl = ""
    /\ response # Null /\ response[1].ok
    /\ response[1].data[1].merchant # Null

\* A creation has succeeded and its submit handler has finished.
AfterSuccess ==
    /\ submitPc = "idle"
    /\ response # Null /\ response[1].ok /\ response[1].data # Null

\* fd with both coordinates filled in.
WithCoordinates(fd) == [ fd EXCEPT !.latitude = Some(12), !.longitude = Some(77) ]

\* C24 as stated: after a successful submission every later submit at step 1
\* fails with the location-required error.
C24_Original ==
    [][(AfterSuccess /\ SubmitStep) =>
          step' = 1 /\ error' = MsgLocationRequired]_vars

\* C24: after a successful submission the form has latitude and longitude null,
\* the location detection is over and stays so, and the step is 1; every later
\* submit fails Step-1 validation with the message of its first failing check,
\* which is the location-required error once the other Step-1 fields are valid;
\* no further creation request is issued.
C24_NoSecondMerchant ==
    /\ [](AfterSuccess =>
            /\ formData.latitude = Null /\ formData.longitude = Null
            /\ locPc = "done"
            /\ step = 1)
    /\ [][AfterSuccess => (AfterSuccess' /\ requests' = requests)]_vars
    /\ [][(AfterSuccess /\ SubmitStep) =>
            /\ step' = 1 /\ ret' = Some(FALSE)
            /\ error' # ""
            /\ error' = FirstStep1Failure(formData, variant)
            /\ Step1Passes(WithCoordinates(formData), variant)
                  => error' = MsgLocationRequired
            /\ submitPc' = "idle"]_vars

\* C24 witness: after a success the form was filled in again and submitted; the
\* submit failed on the missing location.
C24_Witness ==
    /\ AfterSuccess /\ lastOp = "handleSubmit"
    /\ Step1Passes(WithCoordinates(formData), variant)
    /\ error = MsgLocationRequired
    /\ step = 1 /\ requests = 1

\* This step writes a coordinate into the form data.
CoordinatesWritten ==
    \/ formData'.latitude # Null /\ formData'.latitude # formData.latitude
    \/ formData'.longitude # Null /\ formData'.longitude # formData.longitude

\* C25: a coordinate is written to the form data only by the step that reads
\* the reverse-geocode answer, after the position was obtained, and then both
\* coordinates and a non-empty address are written together; the two
\* coordinates are null or set together; and once the reverse-geocode call has
\* failed both are null, the step is 1, no Step-1 validation has passed and no
\* request has been issued.
C25_CoordinatesOnlyWithAddress ==
    /\ [][CoordinatesWritten =>
            /\ lastOp' = "GeocodeParsed"
            /\ position # Null
            /\ formData.latitude = Null /\ formData.longitude = Null
            /\ formData'.latitude = Some(position[1].latitude)
            /\ formData'.longitude = Some(position[1].longitude)
            /\ formData'.address # ""]_vars
    /\ [](formData.latitude = Null <=> formData.longitude = Null)
    /\ [](formData.latitude # Null => formData.address # "")
    /\ [](locationError = MsgGeocodeFailed =>
            /\ position # Null
            /\ formData.latitude = Null /\ formData.longitude = Null
            /\ ~Step1Passes(formData, variant)
            /\ step = 1 /\ ret # Some(TRUE) /\ requests = 0)

\* C25 witness: the position was obtained, the reverse-geocode call failed, and
\* a submit of the otherwise valid Step-1 fields failed on the location.
C25_Witness ==
    /\ locationError = MsgGeocodeFailed /\ position # Null
    /\ lastOp = "handleSubmit" /\ ret = Some(FALSE)
    /\ Step1Passes(WithCoordinates(formData), variant)
    /\ formData.latitude = Null /\ formData.longitude = Null
    /\ error = MsgLocationRequired

\* The query string carries no company.
NoCompany == companyId = Null

\* C26 as stated: without the company parameter every submit at step 2 fails
\* with "Company name is required".
C26_Original ==
    [][(NoCompany /\ SubmitStep /\ step = 2) =>
          step' = 2 /\ error' = MsgCompanyRequired]_vars

\* C26: the company field always holds the company query parameter ("" when it
\* is absent) and no step changes it; when the parameter is absent every submit
\* at step 2 fails Step-2 validation with the message of its first failing
\* check, which is "Company name is required" once the UPI ID is valid, and no
\* creation request is ever issued.
C26_CompanyOnlyFromQuery ==
    /\ [](formData.company = DefaultForm.company)
    /\ [][formData'.company = formData.company]_vars
    /\ [](NoCompany => requests = 0 /\ ~SubmitInFlight /\ body = Null)
    /\ [][(NoCompany /\ SubmitStep /\ step = 2) =>
            /\ step' = 2 /\ ret' = Some(FALSE)
            /\ error' # ""
            /\ error' = FirstStep2Failure(formData)
            /\ NameAtHandle(formData.upiId) => error' = MsgCompanyRequired]_vars

\* C26 witness: without the company parameter a valid UPI ID was submitted at
\* step 2 and the submit failed on the company.
C26_Witness ==
    /\ NoCompany /\ lastOp = "handleSubmit" /\ step = 2
    /\ NameAtHandle(formData.upiId)
    /\ formData.company = << >>
    /\ error = MsgCompanyRequired /\ ret = Some(FALSE)
    /\ requests = 0

\* C27: without the campaign query parameter no submit can ever run, so the
\* step stays 1 and no creation request is issued; hence whenever a submit runs
\* at step 2 the form data's campaignId is non-empty, and the error is never
\* "Campaign ID is missing".
C27_NoCampaignNoSubmit ==
    /\ [](NoCampaign =>
            /\ ~ENABLED handleSubmit
            /\ lastOp # "handleSubmit"
            /\ step = 1 /\ requests = 0 /\ ~SubmitInFlight)
    /\ [][(SubmitStep /\ step = 2) =>
            /\ formData.campaignId # << >>
            /\ error' # MsgCampaignMissing]_vars
    /\ [](error # MsgCampaignMissing)

\* C27 witness: without the campaign parameter the location was detected and
\* the Step-1 fields were filled in validly; the form is still at step 1.
C27_Witness ==
    /\ NoCampaign /\ lastOp = "handleChange"
    /\ Step1Passes(formData, variant)
    /\ ~loading /\ ~locationLoading
    /\ step = 1 /\ requests = 0

----------------------------------------------------------------------------
(* The typewriter: the intro of part_000 and the FormLoader of typewriter.tsx *)

\* The text prop FormLoader passes to TypewriterText.
text == << "H", "u", "n", "t", " ", "B", "o", "u", "n", "t", "y" >>

\* FormLoader after construction: showTypewriter is false, TypewriterText is
\* not mounted yet; the form's state is not part of this component.
FormLoaderInit ==
    /\ variant = "typewriter"
    /\ campaignId = Null
    /\ companyId = Null
    /\ apiUrl = FALSE
    /\ geolocation = FALSE
    /\ formData = initialFormState(campaignId, companyId)
    /\ error = ""
    /\ success = ""
    /\ loading = FALSE
    /\ locationLoading = TRUE
    /\ merchantData = Null
    /\ step = 1
    /\ locationError = ""
    /\ isDialogOpen = FALSE
    /\ qrDataUrl = ""
    /\ qrLoading = FALSE
    /\ showTypewriter = FALSE
    /\ displayText = << >>
    /\ currentIndex = 0
    /\ locPc = "mount"
    /\ position = Null
    /\ submitPc = "idle"
    /\ body = Null
    /\ response = Null
    /\ requests = 0
    /\ lastOp = "init"
    /\ ret = Null

\* The 1500 ms timer of FormLoader fires: TypewriterText is mounted.
FormLoaderTimer ==
    /\ variant = "typewriter"
    /\ ~showTypewriter
    /\ showTypewriter' = TRUE
    /\ lastOp' = "FormLoaderTimer"
    /\ UNCHANGED << config, location, submission, dialog, displayText, currentIndex,
                    formData, error, success, loading, step, ret >>

\* The 150 ms timer of TypewriterText fires; at the end of the text the effect
\* sets no timer, and onComplete is undefined.
TypewriterTextTick ==
    /\ variant = "typewriter"
    /\ showTypewriter
    /\ currentIndex < Len(text)
    /\ displayText' = Append(displayText, text[currentIndex + 1])
    /\ currentIndex' = currentIndex + 1
    /\ lastOp' = "TypewriterTextTick"
    /\ UNCHANGED << config, location, submission, dialog, showTypewriter,
                    formData, error, success, loading, step, ret >>

TypewriterInit ==
    \/ Init /\ variant = "part000"
    \/ FormLoaderInit

TypewriterNext ==
    \/ variant = "part000" /\ Next
    \/ FormLoaderTimer
    \/ TypewriterTextTick

\* Both components, with timers that fire: the mount effect runs and every
\* timer that is set and not cleared for good eventually fires.
TypewriterSpec ==
    /\ TypewriterInit
    /\ [][TypewriterNext]_vars
    /\ WF_vars(Mount)
    /\ WF_vars(TypewriterTick)
    /\ WF_vars(TypewriterComplete)
    /\ WF_vars(FormLoaderTimer)
    /\ WF_vars(TypewriterTextTick)

\* The text the intro is to type.
HuntBounty == << "H", "u", "n", "t", " ", "B", "o", "u", "n", "t", "y" >>

\* A step of a typing timer.
TickStep == lastOp' \in { "TypewriterTick", "TypewriterTextTick" }

\* C28: the displayed text is the prefix of "Hunt Bounty" of length currentIndex;
\* the index changes only in a timer tick, by one, and never past the length of
\* the text; onComplete is called only with the whole text displayed; in
\* part_000 the form takes no input while the intro is shown, the intro is
\* hidden only by onComplete and never shown again; and with timers that fire
\* the whole text is eventually displayed and the form of part_000 is
\* eventually shown for good.
C28_TypewriterIntro ==
    /\ [](/\ currentIndex \in 0..Len(HuntBounty)
          /\ displayText = SubSeq(HuntBounty, 1, currentIndex))
    /\ [][currentIndex' # currentIndex =>
            /\ TickStep
            /\ currentIndex' = currentIndex + 1
            /\ currentIndex < Len(HuntBounty)]_vars
    /\ [][TickStep => currentIndex' = currentIndex + 1]_vars
    /\ [][lastOp' = "TypewriterComplete" =>
            /\ displayText = HuntBounty
            /\ showTypewriter /\ ~showTypewriter']_vars
    /\ []((variant = "part000" /\ showTypewriter) =>
            /\ ~ENABLED handleChange /\ ~ENABLED handleSubmit
            /\ formData.merchantName = << >> /\ formData.merchantMobile = << >>
            /\ formData.upiId = << >>
            /\ step = 1 /\ requests = 0)
    /\ [][(variant = "part000" /\ showTypewriter' # showTypewriter) =>
            lastOp' = "TypewriterComplete"]_vars
    /\ [](variant = "typewriter" => lastOp # "TypewriterComplete")
    /\ <>(displayText = HuntBounty)
    /\ <>[](variant = "part000" => (~showTypewriter /\ ENABLED handleChange))

\* C28 witness: the intro of part_000 has typed the whole text and onComplete
\* has shown the form.
C28_Witness ==
    /\ variant = "part000" /\ lastOp = "TypewriterComplete"
    /\ ~showTypewriter
    /\ displayText = HuntBounty /\ currentIndex = Len(HuntBounty)
=============================================================================
